---- MODULE Spec2Model ----
(***************************************************************************)
(* Model of ElmerLibNumaFamily (gosmart/server/families/elmer_libnuma.py). *)
(*                                                                         *)
(* Python strings whose characters the code inspects (file references,     *)
(* ids, algorithm text, the centre policy) are sequences of one-character  *)
(* strings; names that are only compared (parameter keys, formats,         *)
(* classes, element tags) are TLA+ strings.  Python values of parameters   *)
(* are tagged records (None, bool, number, str, list).  Numbers are exact  *)
(* rationals num/den, so that the true division of line 139 is kept.       *)
(* Dictionaries that the code iterates are sequences of [key, val]         *)
(* records in insertion order.                                             *)
(***************************************************************************)
EXTENDS Integers, Sequences, FiniteSets, TLC

VARIABLES _needles, _needle_order, _files_required, _regions,
          _regions_by_meaning, _parameters, _algorithms, _definition,
          _sif, _xml, ret

vars == <<_needles, _needle_order, _files_required, _regions,
          _regions_by_meaning, _parameters, _algorithms, _definition,
          _sif, _xml, ret>>

----------------------------------------------------------------------------
(* Python values *)

None == [t |-> "None"]
Bool(b) == [t |-> "bool", b |-> b]
Num(n) == [t |-> "num", num |-> n, den |-> 1]
Rat(n, d) == [t |-> "num", num |-> n, den |-> d]
Str(s) == [t |-> "str", s |-> s]
List(l) == [t |-> "list", l |-> l]

\* bool(v): the truth value Python's `if v:` tests
Truthy(v) ==
    CASE v.t = "None" -> FALSE
      [] v.t = "bool" -> v.b
      [] v.t = "num" -> v.num # 0
      [] v.t = "str" -> Len(v.s) > 0
      [] v.t = "list" -> Len(v.l) > 0

\* iter(v): the items a for/zip draws from v; only str and list are iterable
Iterable(v) == v.t \in {"str", "list"}

Items(v) ==
    IF v.t = "str" THEN [i \in 1..Len(v.s) |-> Str(<<v.s[i]>>)] ELSE v.l

\* a - b and a / n on numbers
NumSub(a, b) == Rat(a.num * b.den - b.num * a.den, a.den * b.den)

NumAdd(a, b) == Rat(a.num * b.den + b.num * a.den, a.den * b.den)

NumDiv(a, n) == Rat(a.num, a.den * n)

NumEq(a, b) == a.t = "num" /\ b.t = "num" /\ a.num * b.den = b.num * a.den

----------------------------------------------------------------------------
(* Insertion-ordered dictionaries *)

DictHas(d, k) == \E i \in 1..Len(d) : d[i].key = k

DictGet(d, k) == d[CHOOSE i \in 1..Len(d) : d[i].key = k].val

DictSet(d, k, v) ==
    IF DictHas(d, k)
      THEN [i \in 1..Len(d) |-> IF d[i].key = k THEN [key |-> k, val |-> v] ELSE d[i]]
      ELSE Append(d, [key |-> k, val |-> v])

DictKeys(d) == {d[i].key : i \in 1..Len(d)}

\* dict[k] = v on a dictionary whose order the code never reads
MapSet(m, k, v) == [x \in DOMAIN m \cup {k} |-> IF x = k THEN v ELSE m[x]]

----------------------------------------------------------------------------
(* String helpers of the standard library, as the code calls them *)

s_surface == <<"s", "u", "r", "f", "a", "c", "e">>
s_zone == <<"z", "o", "n", "e">>
s_library == <<"l", "i", "b", "r", "a", "r", "y">>
s_input == <<"i", "n", "p", "u", "t">>
s_first_needle == <<"f", "i", "r", "s", "t", "-", "n", "e", "e", "d", "l", "e">>
s_centroid_of_tips ==
    <<"c", "e", "n", "t", "r", "o", "i", "d", "-", "o", "f", "-", "t", "i", "p", "s">>

\* the positions of character c in s
Positions(s, c) == {i \in 1..Len(s) : s[i] = c}

Max(S) == CHOOSE x \in S : \A y \in S : y <= x

Min(S) == CHOOSE x \in S : \A y \in S : x <= y

\* s.split(':', 1)
SplitColon(s) ==
    IF Positions(s, ":") = {}
      THEN <<s>>
      ELSE LET i == Min(Positions(s, ":"))
           IN  <<SubSeq(s, 1, i - 1), SubSeq(s, i + 1, Len(s))>>

\* os.path.splitext(p)[1]: from the last dot of the last path component, unless
\* only dots precede it in that component
SplitExt(p) ==
    LET sep == IF Positions(p, "/") = {} THEN 0 ELSE Max(Positions(p, "/"))
        dot == IF Positions(p, ".") = {} THEN 0 ELSE Max(Positions(p, "."))
    IN  IF dot > sep /\ \E j \in (sep + 1)..(dot - 1) : p[j] # "."
          THEN SubSeq(p, dot, Len(p))
          ELSE <<>>

\* os.path.join(a, b)
PathJoin(a, b) ==
    IF Len(b) > 0 /\ b[1] = "/" THEN b
    ELSE IF Len(a) = 0 \/ a[Len(a)] = "/" THEN a \o b
    ELSE a \o <<"/">> \o b

\* fn in text
Contains(text, fn) ==
    \E i \in 1..(Len(text) - Len(fn) + 1) : SubSeq(text, i, i + Len(fn) - 1) = fn

----------------------------------------------------------------------------
(* Parameter and needle lookup *)

\* get_parameter(key, try_json, parameters): the decoded value, or None on a
\* miss.  The stores hold the values as convert_parameter decodes them.
get_parameter_in(parameters, key) ==
    IF DictHas(parameters, key) THEN DictGet(parameters, key) ELSE None

\* get_parameter(key) on self._parameters (set by a completed load_definition)
get_parameter(key) == get_parameter_in(_parameters[1], key)

\* lines 60-61: a key that is no key of _needles and is a key of
\* _needle_order is translated.  Declared indices are str (lxml attribute
\* values) and ordinal positions are int, so a str is never a key of
\* _needle_order and an int is never a key of _needles.
resolve_needle_index(needle_index) ==
    IF ~(needle_index.t = "str" /\ DictHas(_needles, needle_index.s))
       /\ needle_index.t = "num" /\ needle_index.den = 1
       /\ needle_index.num \in DOMAIN _needle_order
      THEN Str(_needle_order[needle_index.num])
      ELSE needle_index

\* get_needle_parameter(needle_index, key): [status, value]; a key that does
\* not resolve to a needle raises KeyError at line 63
get_needle_parameter(needle_index, key) ==
    LET ix == resolve_needle_index(needle_index)
    IN  IF ix.t = "str" /\ DictHas(_needles, ix.s)
          THEN [status |-> "ok",
                value |-> get_parameter_in(DictGet(_needles, ix.s).parameters, key)]
          ELSE [status |-> "KeyError", value |-> None]

----------------------------------------------------------------------------
(* load_definition *)

\* load_needle with line 100 keeping an ordinal that is already recorded
load_needle_keeps_order(st, needle, k) ==
    LET location == SplitColon(needle.file)
        is_mesh == location[1] \in {s_surface, s_zone}
        target_file == needle.index \o SplitExt(location[2])
        needle_file ==
            IF is_mesh THEN location[1] \o <<":">> \o target_file ELSE needle.file
    IN  [needles |-> DictSet(st.needles, needle.index,
                             [parameters |-> needle.parameters,
                              file |-> needle_file,
                              class |-> needle.class]),
         order |-> IF k \in DOMAIN st.order
                     THEN st.order ELSE MapSet(st.order, k, needle.index),
         files |-> IF is_mesh
                     THEN MapSet(st.files, PathJoin(s_input, target_file), location[2])
                     ELSE st.files]

\* lines 88-101, one needle element at ordinal position k
load_needle(st, needle, k) ==
    LET location == SplitColon(needle.file)
        is_mesh == location[1] \in {s_surface, s_zone}
        target_file == needle.index \o SplitExt(location[2])
        needle_file ==
            IF is_mesh THEN location[1] \o <<":">> \o target_file ELSE needle.file
    IN  [needles |-> DictSet(st.needles, needle.index,
                             [parameters |-> needle.parameters,
                              file |-> needle_file,
                              class |-> needle.class]),
         order |-> MapSet(st.order, k, needle.index),
         files |-> IF is_mesh
                     THEN MapSet(st.files, PathJoin(s_input, target_file), location[2])
                     ELSE st.files]

RECURSIVE load_needles(_, _, _)
\* lines 86-101: the loop over the needles block, from element k + 1 on
load_needles(st, elems, k) ==
    IF k >= Len(elems) THEN st
    ELSE load_needles(load_needle(st, elems[k + 1], k), elems, k + 1)

\* lines 105-117, one region element; os.path.splitext(None) raises TypeError
\* at line 108, after line 106 has made the region's meaning bucket
load_region(st, region) ==
    LET name == region.name
        by1 == IF name \in DOMAIN st.by_meaning
                 THEN st.by_meaning ELSE MapSet(st.by_meaning, name, <<>>)
    IN  IF Len(region.input) = 0
          THEN [st EXCEPT !.by_meaning = by1, !.status = "TypeError"]
          ELSE
            LET input == region.input[1]
                target_file == region.id \o SplitExt(input)
                rec == [format |-> region.format, meaning |-> name,
                        input |-> target_file, groups |-> region.groups]
            IN  [regions |-> DictSet(st.regions, region.id, rec),
                 by_meaning |-> MapSet(by1, name, Append(by1[name], rec)),
                 files |-> IF region.format \in {"surface", "zone"} /\ Len(input) > 0
                             THEN MapSet(st.files, PathJoin(s_input, target_file), input)
                             ELSE st.files,
                 status |-> "ok"]

RECURSIVE load_regions(_, _, _)
\* lines 104-117: the loop over the regions block; an exception ends it
load_regions(st, elems, k) ==
    IF k >= Len(elems) \/ st.status # "ok" THEN st
    ELSE load_regions(load_region(st, elems[k + 1]), elems, k + 1)

EmptyMap == [x \in {} |-> x]

\* load_definition(xml, parameters, algorithms): the whole call.  An exception
\* leaves what the statements before it assigned.
load_definition(xml, parameters, algorithms) ==
    \E n \in {IF Len(xml.needles) = 0
                 THEN [needles |-> <<>>, order |-> _needle_order,
                       files |-> _files_required]
                 ELSE load_needles([needles |-> <<>>, order |-> _needle_order,
                                    files |-> _files_required], xml.needles[1], 0)} :
    \E r \in {load_regions([regions |-> <<>>, by_meaning |-> EmptyMap,
                            files |-> n.files, status |-> "ok"], xml.regions, 0)} :
        /\ _sif' = xml.definition
        /\ _needles' = n.needles
        /\ _needle_order' = n.order
        /\ _regions' = r.regions
        /\ _regions_by_meaning' = r.by_meaning
        /\ _files_required' = r.files
        /\ IF r.status = "ok"
             THEN /\ _parameters' = <<parameters>>
                  /\ _algorithms' = algorithms
                  /\ _definition' = xml.definition
             ELSE UNCHANGED <<_parameters, _algorithms, _definition>>
        /\ ret' = [op |-> "load_definition", status |-> r.status,
                   value |-> <<xml.regions>>]
        /\ UNCHANGED _xml

----------------------------------------------------------------------------
(* to_xml: the geometry section *)

IsNone(v) == v.t = "None"

IsStr(v, s) == v.t = "str" /\ v.s = s

IsTrue(v) == v.t = "bool" /\ v.b

MinLen(ls) == IF ls = <<>> THEN 0 ELSE Min({Len(ls[i]) : i \in 1..Len(ls)})

RECURSIVE SumFrom(_, _)
\* sum(tips): 0 + tips[0] + tips[1] + ...
SumFrom(tips, k) ==
    IF k = 0 THEN Num(0) ELSE NumAdd(SumFrom(tips, k - 1), tips[k])

\* centroid_of_tips dividing by len(_needle_order) instead of len(_needles)
centroid_of_tips_by_order ==
    LET n == Len(_needles)
        m == Cardinality(DOMAIN _needle_order)
        got == [i \in 1..n |-> get_needle_parameter(Num(i - 1), "NEEDLE_TIP_LOCATION")]
        needle_tips == [i \in 1..n |-> Items(got[i].value)]
        tips(a) == [i \in 1..n |-> needle_tips[i][a]]
    IN  [status |-> "ok",
         value |-> List([a \in 1..MinLen(needle_tips) |->
                            NumDiv(SumFrom(tips(a), n), m)])]

\* lines 137-139: the per-axis mean of the tips of needles 0 .. len(_needles)-1
centroid_of_tips ==
    LET n == Len(_needles)
        got == [i \in 1..n |-> get_needle_parameter(Num(i - 1), "NEEDLE_TIP_LOCATION")]
    IN  IF \E i \in 1..n : got[i].status # "ok"
          THEN [status |-> "KeyError", value |-> None]
        ELSE IF \E i \in 1..n : ~Iterable(got[i].value)
          THEN [status |-> "TypeError", value |-> None]
        ELSE
          LET needle_tips == [i \in 1..n |-> Items(got[i].value)]
              axes == MinLen(needle_tips)
              tips(a) == [i \in 1..n |-> needle_tips[i][a]]
          IN  IF \E a \in 1..axes, i \in 1..n : needle_tips[i][a].t # "num"
                THEN [status |-> "TypeError", value |-> None]
                ELSE [status |-> "ok",
                      value |-> List([a \in 1..axes |-> NumDiv(SumFrom(tips(a), n), n)])]

\* lines 131-140: the value of the local centre_location before it is emitted
derive_centre ==
    LET centre_location == get_parameter("CENTRE_LOCATION")
    IN  IF IsNone(centre_location) \/ IsStr(centre_location, s_first_needle)
          THEN IF Len(_needles) > 0
                 THEN get_needle_parameter(Num(0), "NEEDLE_TIP_LOCATION")
                 ELSE [status |-> "ok", value |-> centre_location]
        ELSE IF IsStr(centre_location, s_centroid_of_tips)
          THEN IF Len(_needles) > 0
                 THEN centroid_of_tips
                 ELSE [status |-> "ok", value |-> centre_location]
        ELSE [status |-> "ok", value |-> centre_location]

\* the first three items of v, as zip(('x', 'y', 'z'), v) pairs them
Zip3(v) == SubSeq(Items(v), 1, IF Len(Items(v)) < 3 THEN Len(Items(v)) ELSE 3)

\* map(lambda c: str(c[0] - c[1]), zip(a, b)): [status, value]
zip_sub(a, b) ==
    IF ~Iterable(a) \/ ~Iterable(b) THEN [status |-> "TypeError", value |-> <<>>]
    ELSE LET n == MinLen(<<Items(a), Items(b)>>)
         IN  IF \E i \in 1..n : Items(a)[i].t # "num" \/ Items(b)[i].t # "num"
               THEN [status |-> "TypeError", value |-> <<>>]
               ELSE [status |-> "ok",
                     value |-> [i \in 1..n |-> NumSub(Items(a)[i], Items(b)[i])]]

\* lines 149-152: entry - tip of the needle at ordinal position 0, on x, y, z
needle_axis ==
    LET tip == get_needle_parameter(Num(0), "NEEDLE_TIP_LOCATION")
        entry == get_needle_parameter(Num(0), "NEEDLE_ENTRY_LOCATION")
    IN  IF tip.status # "ok" \/ entry.status # "ok"
          THEN [status |-> "KeyError", value |-> <<>>]
        ELSE IF ~Iterable(tip.value) \/ ~Iterable(entry.value)
          THEN [status |-> "TypeError", value |-> <<>>]
        ELSE zip_sub(List(Zip3(entry.value)), List(Zip3(tip.value)))

EmptyDoc ==
    [centre |-> <<>>, needleaxis |-> <<>>, simulationscaling |-> <<>>,
     regions |-> <<>>, constants |-> <<>>,
     needlelibrary |-> [zones |-> <<>>, needles |-> <<>>],
     mesher |-> [zone_boundaries |-> FALSE, inner |-> <<>>, radius |-> None,
                 entries |-> <<>>, lengthscales |-> <<>>],
     variant |-> [text |-> <<>>, modules |-> <<>>],
     algorithms |-> <<>>, pointsources |-> <<>>, lesion |-> <<>>]

\* lines 142-157, with c the outcome of lines 131-140 and axis that of 149-152
geometry_of(c, axis) ==
    IF c.status # "ok"
      THEN [status |-> c.status, doc |-> EmptyDoc, centre_location |-> None]
    ELSE IF ~Iterable(c.value)
      THEN [status |-> "TypeError", doc |-> EmptyDoc, centre_location |-> c.value]
    ELSE
      LET scaling == get_parameter("SIMULATION_SCALING")
      IN  [status |-> axis.status,
           centre_location |-> c.value,
           doc |-> [EmptyDoc EXCEPT
                      !.centre = Zip3(c.value),
                      !.needleaxis = IF Len(_needles) > 0
                                       THEN <<axis.value>> ELSE <<>>,
                      !.simulationscaling =
                          IF IsNone(scaling) THEN <<>> ELSE <<scaling>>]]

\* lines 124-157: root, geometry, centre, needleaxis, simulationscaling
to_xml_geometry ==
    IF _parameters = <<>>
      THEN [status |-> "AttributeError", doc |-> EmptyDoc, centre_location |-> None]
      ELSE geometry_of(derive_centre,
                       IF Len(_needles) > 0
                         THEN needle_axis ELSE [status |-> "ok", value |-> <<>>])

----------------------------------------------------------------------------
(* to_xml: regions, constants, needle library, mesher *)

s_input_slash == <<"i", "n", "p", "u", "t", "/">>

\* lines 159-164: one region element per region, in insertion order
to_xml_regions ==
    [i \in 1..Len(_regions) |->
        [tag |-> _regions[i].val.format,
         name |-> _regions[i].key,
         input |-> PathJoin(s_input_slash, _regions[i].val.input),
         groups |-> _regions[i].val.groups]]

\* lines 166-174: one parameter element per parameter
to_xml_constants ==
    [i \in 1..Len(_parameters[1]) |->
        [name |-> _parameters[1][i].key, value |-> _parameters[1][i].val]]

\* classify_region with the organ test before the zone test
classify_region_organ_first(idx, region) ==
    IF region.meaning = "organ" THEN <<[tag |-> "organ", region |-> idx]>>
    ELSE IF region.format = "zone" THEN <<[tag |-> "zone", region |-> idx]>>
    ELSE IF \E g \in 1..Len(region.groups) : region.groups[g] \in {"vessels", "bronchi"}
      THEN <<[tag |-> "vessel", region |-> idx]>>
    ELSE <<>>

\* lines 211-217: the mesher entry of one region, if any
classify_region(idx, region) ==
    IF region.format = "zone" THEN <<[tag |-> "zone", region |-> idx]>>
    ELSE IF region.meaning = "organ" THEN <<[tag |-> "organ", region |-> idx]>>
    ELSE IF \E g \in 1..Len(region.groups) : region.groups[g] \in {"vessels", "bronchi"}
      THEN <<[tag |-> "vessel", region |-> idx]>>
    ELSE <<>>

RECURSIVE mesher_regions(_)
\* lines 211-217: the loop over the first k regions
mesher_regions(k) ==
    IF k = 0 THEN <<>>
    ELSE mesher_regions(k - 1) \o classify_region(_regions[k].key, _regions[k].val)

\* lines 221-230: the preset the RESOLUTION_HIGH parameter selects
lengthscale_preset ==
    IF Truthy(get_parameter("RESOLUTION_HIGH"))
      THEN <<[k |-> "nearfield", v |-> Str(<<"1", ".", "0">>)],
             [k |-> "farfield", v |-> Str(<<"2", ".", "0">>)],
             [k |-> "zonefield", v |-> Str(<<"1", ".", "0">>)],
             [k |-> "vessels", v |-> Str(<<"f", "a", "r">>)]>>
      ELSE <<[k |-> "nearfield", v |-> Str(<<"2", ".", "0">>)],
             [k |-> "farfield", v |-> Str(<<"5", ".", "0">>)],
             [k |-> "zonefield", v |-> Str(<<"2", ".", "0">>)],
             [k |-> "vessels", v |-> Str(<<"f", "a", "r">>)]>>

\* the guard as `if field is not None:`
overrides_when_given(field) == ~IsNone(field)

\* line 237, 239, 241: `if field:` guards the replacement of one preset entry
overrides(field) == Truthy(field)

\* lines 219-247: the attributes of the lengthscales element
lengthscales ==
    LET nearfield == get_parameter("RESOLUTION_FIELD_NEAR")
        needlezonefield == get_parameter("RESOLUTION_FIELD_NEEDLE_ZONE")
        farfield == get_parameter("RESOLUTION_FIELD_FAR")
        zonefield == get_parameter("RESOLUTION_FIELD_ZONE")
        s0 == lengthscale_preset
        s1 == IF overrides(nearfield)
                THEN [s0 EXCEPT ![1] = [k |-> "nearfield", v |-> nearfield]] ELSE s0
        s2 == IF overrides(farfield)
                THEN [s1 EXCEPT ![2] = [k |-> "farfield", v |-> farfield]] ELSE s1
        s3 == IF overrides(zonefield)
                THEN [s2 EXCEPT ![3] = [k |-> "zonefield", v |-> zonefield]] ELSE s2
    IN  IF Truthy(needlezonefield)
          THEN Append(s3, [k |-> "needlezonefield", v |-> needlezonefield])
          ELSE s3

\* lines 159-247 on the tree st that to_xml_geometry returns
to_xml_mesher(st) ==
    LET solid_needles == get_parameter("SETTING_SOLID_NEEDLES")
        mesher_inner == get_parameter("SETTING_AXISYMMETRIC_INNER")
        mesher_inner_coarse == get_parameter("SETTING_AXISYMMETRIC_INNER_COARSE")
        radius == get_parameter("SIMULATION_DOMAIN_RADIUS")
        inner == (IF IsNone(mesher_inner) THEN <<>>
                  ELSE <<[name |-> "", template |-> mesher_inner]>>)
                 \o (IF IsNone(mesher_inner_coarse) THEN <<>>
                     ELSE <<[name |-> "coarse", template |-> mesher_inner_coarse]>>)
    IN  IF st.status # "ok" THEN st
        ELSE IF \E i \in 1..Len(inner) : inner[i].template.t # "str"
          \* lxml's set() takes str values only (lines 193, 200)
          THEN [st EXCEPT !.status = "TypeError"]
        ELSE [st EXCEPT
                !.doc.regions = to_xml_regions,
                !.doc.constants = to_xml_constants,
                !.doc.needlelibrary.zones =
                    IF IsNone(solid_needles) THEN <<>> ELSE <<IsTrue(solid_needles)>>,
                !.doc.mesher =
                    [zone_boundaries |->
                        IsTrue(solid_needles)
                        \/ IsTrue(get_parameter("SETTING_ZONE_BOUNDARIES")),
                     inner |-> inner,
                     radius |-> IF IsNone(radius)
                                  THEN Str(<<"5", "0">>) ELSE radius,
                     entries |-> mesher_regions(Len(_regions)),
                     lengthscales |-> lengthscales]]

----------------------------------------------------------------------------
(* to_xml: solver section and the algorithm check *)

_disallowed_functions ==
    << <<"f", "u", "n", "c", "d", "e", "l">>,
       <<"s", "p", "r", "i", "n", "t", "f">>,
       <<"s", "s", "c", "a", "n", "f">>,
       <<"e", "v", "a", "l">>,
       <<"s", "o", "u", "r", "c", "e">>,
       <<"f", "r", "e", "a", "d">>,
       <<"f", "s", "c", "a", "n", "f">>,
       <<"f", "g", "e", "t", "s">>,
       <<"f", "w", "r", "i", "t", "e">>,
       <<"f", "p", "r", "i", "n", "t", "f">>,
       <<"f", "p", "u", "t", "s">>,
       <<"f", "o", "p", "e", "n">>,
       <<"f", "r", "e", "o", "p", "e", "n">>,
       <<"f", "c", "l", "o", "s", "e">>,
       <<"s", "a", "v", "e">>,
       <<"l", "o", "a", "d">>,
       <<"f", "o", "r", "m", "a", "t">> >>

\* lines 271-273: the text of the content element
content_text(definition) ==
    IF IsNone(definition.content) THEN <<>> ELSE definition.content.s

\* the check of line 275 without `or fn in result`
disallowed_in_content(result, text) ==
    \E i \in 1..Len(_disallowed_functions) : Contains(text, _disallowed_functions[i])

\* lines 274-275: some denylisted name occurs in the content or in the result name
disallowed(result, text) ==
    \E i \in 1..Len(_disallowed_functions) :
        Contains(text, _disallowed_functions[i])
        \/ Contains(result, _disallowed_functions[i])

s_sources == <<"\n", "$", "S", "O", "U", "R", "C", "E", "S", "\n">>

\* lines 249-276 on the tree that to_xml_mesher returns; line 276 names
\* RuntimeException, which Python does not define: the raise is a NameError
to_xml_elmer(st) ==
    LET modules == get_parameter("ELMER_NUMA_MODULES")
    IN  IF st.status # "ok" THEN st
        ELSE IF \E i \in 1..Len(_algorithms) :
                   disallowed(_algorithms[i].key, content_text(_algorithms[i].val))
          THEN [st EXCEPT !.status = "NameError"]
        ELSE [st EXCEPT
                !.doc.variant = [text |-> _definition \o s_sources,
                                 modules |-> IF Truthy(modules)
                                               THEN <<modules>> ELSE <<>>],
                !.doc.algorithms =
                    [i \in 1..Len(_algorithms) |->
                        [result |-> _algorithms[i].key,
                         arguments |-> _algorithms[i].val.arguments,
                         content |-> content_text(_algorithms[i].val)]]]

----------------------------------------------------------------------------
(* to_xml: needle placement and lesion *)

\* line 307 with the operands of the subtraction exchanged
needle_offset_swapped(tip_location, centre_location) ==
    zip_sub(tip_location, centre_location)

\* line 307: str(c[1] - c[0]) over zip(tip_location, centre_location)
needle_offset(tip_location, centre_location) ==
    zip_sub(centre_location, tip_location)

\* line 308: str(c[0] - c[1]) over zip(entry_location, tip_location)
needle_axis_of(entry_location, tip_location) ==
    zip_sub(entry_location, tip_location)

\* lines 281-292: a boundary needle whose file is a surface or zone mesh
place_mesh_needle(st, ix, location) ==
    LET needlezonefield == get_parameter("RESOLUTION_FIELD_NEEDLE_ZONE")
        sized == Truthy(needlezonefield) /\ location[1] = s_zone
    IN  IF sized /\ needlezonefield.t # "str"
          \* lxml's set() takes str values only (line 292)
          THEN [st EXCEPT !.status = "TypeError"]
          ELSE [st EXCEPT
                  !.doc.regions = Append(@,
                      [tag |-> IF location[1] = s_zone THEN "zone" ELSE "surface",
                       name |-> ix,
                       input |-> PathJoin(s_input_slash, location[2]),
                       groups |-> <<"needles">>]),
                  !.doc.mesher.entries = Append(@,
                      [tag |-> "needle", region |-> ix,
                       characteristic_length |->
                           IF sized THEN <<needlezonefield>> ELSE <<>>])]

\* lines 294-315: a boundary needle placed from the needle library
place_library_needle(st, ix, needle, location) ==
    LET l == st.l + 1
        name_needle_regions == ~IsNone(get_parameter("SETTING_SOLID_NEEDLES"))
        tip_location == get_needle_parameter(Str(ix), "NEEDLE_TIP_LOCATION").value
        entry_location == get_needle_parameter(Str(ix), "NEEDLE_ENTRY_LOCATION").value
        offset == needle_offset(tip_location, st.centre_location)
        axis == needle_axis_of(entry_location, tip_location)
    IN  IF Len(location) < 2 THEN [st EXCEPT !.status = "IndexError"]
        ELSE IF offset.status # "ok" THEN [st EXCEPT !.status = offset.status]
        ELSE IF axis.status # "ok" THEN [st EXCEPT !.status = axis.status]
        ELSE [st EXCEPT
                !.l = l,
                !.doc.needlelibrary.needles = Append(@,
                    [index |-> ix,
                     id |-> IF location[1] = s_library THEN <<location[2]>> ELSE <<>>,
                     name |-> IF location[1] # s_library THEN <<Str(location[2])>>
                              ELSE IF name_needle_regions THEN <<Num(l)>>
                              ELSE <<>>,
                     offset |-> offset.value,
                     axis |-> axis.value,
                     parameters |->
                         [i \in 1..Len(needle.parameters) |->
                             [name |-> needle.parameters[i].key,
                              value |-> needle.parameters[i].val]]])]

\* lines 316-330: a point-sources needle
place_point_sources(st, location) ==
    LET extension_lengths == get_parameter("CONSTANT_NEEDLE_EXTENSIONS")
    IN  IF location[1] # s_library THEN [st EXCEPT !.status = "RuntimeError"]
        ELSE IF Len(location) < 2 THEN [st EXCEPT !.status = "IndexError"]
        ELSE IF ~Iterable(extension_lengths) THEN [st EXCEPT !.status = "TypeError"]
        ELSE [st EXCEPT
                !.doc.pointsources = Append(@,
                    [system |-> location[2],
                     extensions |->
                         [i \in 1..Len(Items(extension_lengths)) |->
                             [phase |-> i - 1,
                              length |-> Items(extension_lengths)[i]]]])]

\* lines 279-330, one needle
place_needle(st, ix, needle) ==
    LET location == SplitColon(needle.file)
    IN  IF needle.class \in {"solid-boundary", "boundary"}
          THEN IF location[1] \in {s_surface, s_zone}
                 THEN place_mesh_needle(st, ix, location)
                 ELSE place_library_needle(st, ix, needle, location)
        ELSE IF needle.class = "point-sources"
          THEN place_point_sources(st, location)
        ELSE st

RECURSIVE place_needles(_, _)
\* lines 278-330: the loop over _needles, from needle k + 1 on
place_needles(st, k) ==
    IF k >= Len(_needles) \/ st.status # "ok" THEN st
    ELSE place_needles(place_needle(st, _needles[k + 1].key, _needles[k + 1].val), k + 1)

\* lines 278-330 on the tree e that to_xml_elmer returns
to_xml_needles(e) ==
    IF e.status # "ok" THEN e
    ELSE place_needles([status |-> "ok", doc |-> e.doc,
                        centre_location |-> e.centre_location, l |-> 0], 0)

\* lines 333-342 on the tree st that to_xml_needles returns
to_xml_lesion(st) ==
    LET field == get_parameter("SETTING_LESION_FIELD")
        threshold_upper == get_parameter("SETTING_LESION_THRESHOLD_UPPER")
        threshold_lower == get_parameter("SETTING_LESION_THRESHOLD_LOWER")
    IN  IF st.status # "ok" THEN [status |-> st.status, doc |-> st.doc]
        ELSE IF field.t # "str"
          \* lxml's set() takes str values only (line 334)
          THEN [status |-> "TypeError", doc |-> st.doc]
        ELSE [status |-> "ok",
              doc |-> [st.doc EXCEPT
                         !.lesion = <<[field |-> field,
                                       threshold_upper |-> threshold_upper,
                                       threshold_lower |-> threshold_lower]>>]]

\* lines 124-342: the tree to_xml builds, or the exception that ends it
to_xml_tree ==
    to_xml_lesion(to_xml_needles(to_xml_elmer(to_xml_mesher(to_xml_geometry))))

\* the assignment of line 344 made before the tree is complete
stored_xml_early(tree) == <<tree.doc>>

\* line 344: _xml is assigned only when the tree is complete
stored_xml(tree) == IF tree.status = "ok" THEN <<tree.doc>> ELSE _xml

----------------------------------------------------------------------------
(* The operations *)

\* to_xml()
to_xml ==
    \E tree \in {to_xml_tree} :
        /\ _xml' = stored_xml(tree)
        /\ ret' = [op |-> "to_xml", status |-> tree.status,
                   value |-> IF tree.status = "ok" THEN <<tree.doc>> ELSE <<>>]
        /\ UNCHANGED <<_needles, _needle_order, _files_required, _regions,
                       _regions_by_meaning, _parameters, _algorithms,
                       _definition, _sif>>

\* get_needle_parameter(needle_index, key) called from outside
call_get_needle_parameter(needle_index, key) ==
    \E r \in {get_needle_parameter(needle_index, key)} :
        /\ ret' = [op |-> "get_needle_parameter", status |-> r.status,
                   value |-> <<r.value, needle_index>>]
        /\ UNCHANGED <<_needles, _needle_order, _files_required, _regions,
                       _regions_by_meaning, _parameters, _algorithms,
                       _definition, _sif, _xml>>

\* __init__(files_required), lines 52-55; _sif and _xml are class attributes
Init ==
    /\ _needles = <<>>
    /\ _needle_order = EmptyMap
    /\ _files_required = EmptyMap
    /\ _regions = <<>>
    /\ _regions_by_meaning = EmptyMap
    /\ _parameters = <<>>
    /\ _algorithms = <<>>
    /\ _definition = <<>>
    /\ _sif = <<>>
    /\ _xml = <<>>
    /\ ret = [op |-> "__init__", status |-> "ok", value |-> <<>>]

----------------------------------------------------------------------------
(* Inputs *)

MaxNeedles == 2

Vec(x, y, z) == List(<<Num(x), Num(y), Num(z)>>)

\* an entry of a parameter block, left out when the value is None
Opt(key, v) == IF IsNone(v) THEN <<>> ELSE <<[key |-> key, val |-> v]>>

Indices == {<<"a">>, <<"b">>, <<"c">>}

\* the needles blocks: up to MaxNeedles elements with distinct declared indices
IndexSeqs ==
    {s \in UNION {[1..n -> Indices] : n \in 0..MaxNeedles} :
        \A i, j \in DOMAIN s : i # j => s[i] # s[j]}

s_sif == <<"s", "i", "f">>
s_dead == <<"d", "e", "a", "d">>

OrganRegion ==
    [id |-> <<"o">>, name |-> "organ", format |-> "surface",
     input |-> <<<<"o", ".", "v", "t", "p">>>>, groups |-> <<"organs">>]

\* needle elements for the geometry: a library needle, a named template and
\* a surface mesh, with different tips and entries
GeometryNeedle(index) ==
    CASE index = <<"a">> ->
           [index |-> index, class |-> "boundary",
            file |-> s_library \o <<":", "r", "f">>,
            parameters |-> <<[key |-> "NEEDLE_TIP_LOCATION", val |-> Vec(1, 2, 3)],
                             [key |-> "NEEDLE_ENTRY_LOCATION", val |-> Vec(1, 2, 7)]>>]
      [] index = <<"b">> ->
           [index |-> index, class |-> "solid-boundary",
            file |-> <<"p", "r", "o", "b", "e", ":", "u">>,
            parameters |-> <<[key |-> "NEEDLE_TIP_LOCATION", val |-> Vec(4, 0, 1)],
                             [key |-> "NEEDLE_ENTRY_LOCATION", val |-> Vec(0, 0, 0)]>>]
      [] OTHER ->
           [index |-> index, class |-> "boundary",
            file |-> s_surface \o <<":", "d", "/", "n", ".", "s", "t", "l">>,
            parameters |-> <<[key |-> "NEEDLE_TIP_LOCATION", val |-> Vec(2, 5, 2)],
                             [key |-> "NEEDLE_ENTRY_LOCATION", val |-> Vec(3, 3, 3)]>>]

\* needles blocks (none, or a block over an index sequence), the needle
\* element of each declared index given by the function Needle
NeedleBlocks(Needle) ==
    {<<>>} \cup {<<[i \in DOMAIN s |-> Needle[s[i]]]>> : s \in IndexSeqs}

\* loads of the geometry needles under the given values of CENTRE_LOCATION
GeometryInputs(CentrePolicies) ==
    {[xml |-> [definition |-> s_sif, needles |-> nb, regions |-> <<OrganRegion>>],
      parameters |-> Opt("CENTRE_LOCATION", c)
                     \o Opt("SETTING_LESION_FIELD", Str(s_dead)),
      algorithms |-> <<>>] :
        nb \in NeedleBlocks([i \in Indices |-> GeometryNeedle(i)]), c \in CentrePolicies}

\* CENTRE_LOCATION absent, or naming a policy
CentreInputs ==
    GeometryInputs({None, Str(s_first_needle), Str(s_centroid_of_tips)})

\* CENTRE_LOCATION an explicit vector, or the centroid policy
PlacementInputs == GeometryInputs({Vec(1, 1, 1), Str(s_centroid_of_tips)})

LookupInputs == GeometryInputs({None})

\* the keys get_needle_parameter is called with: declared indices and ordinals
NeedleKeys == {Str(i) : i \in Indices} \cup {Num(k) : k \in 0..MaxNeedles}

\* needle elements for the fatal conditions: point sources from the library,
\* point sources with a surface reference, and a library needle
FatalNeedle(index) ==
    LET parameters == <<[key |-> "NEEDLE_TIP_LOCATION", val |-> Vec(1, 2, 3)],
                        [key |-> "NEEDLE_ENTRY_LOCATION", val |-> Vec(1, 2, 7)]>>
    IN  CASE index = <<"a">> ->
               [index |-> index, class |-> "point-sources",
                file |-> s_library \o <<":", "p", "s">>, parameters |-> parameters]
          [] index = <<"b">> ->
               [index |-> index, class |-> "point-sources",
                file |-> s_surface \o <<":", "m", ".", "s", "t", "l">>,
                parameters |-> parameters]
          [] OTHER ->
               [index |-> index, class |-> "boundary",
                file |-> s_library \o <<":", "r", "f">>, parameters |-> parameters]

FatalInputs ==
    {[xml |-> [definition |-> s_sif, needles |-> nb, regions |-> <<OrganRegion>>],
      parameters |-> Opt("CENTRE_LOCATION", Vec(1, 1, 1))
                     \o Opt("CONSTANT_NEEDLE_EXTENSIONS", e)
                     \o Opt("SETTING_LESION_FIELD", f),
      algorithms |-> <<>>] :
        nb \in NeedleBlocks([i \in Indices |-> FatalNeedle(i)]),
        e \in {None, List(<<Num(5), Num(10)>>)},
        f \in {None, Str(s_dead)}}

BaseParameters ==
    Opt("CENTRE_LOCATION", Vec(1, 1, 1)) \o Opt("SETTING_LESION_FIELD", Str(s_dead))

MaxRegions == 2

RegionIds == <<<<"r", "1">>, <<"r", "2">>, <<"r", "3">>, <<"r", "4">>>>

\* what a regions block says of one region besides its id
RegionKinds(Formats, Names, Inputs, Groups) ==
    [format : Formats, name : Names, input : Inputs, groups : Groups]

\* the regions blocks of up to MaxRegions regions of the given kinds, no two
\* regions of a block of the same kind
RegionBlocks(Kinds) ==
    {[i \in DOMAIN ks |->
         [id |-> RegionIds[i], name |-> ks[i].name, format |-> ks[i].format,
          input |-> ks[i].input, groups |-> ks[i].groups]] :
        ks \in {q \in UNION {[1..n -> Kinds] : n \in 0..MaxRegions} :
                   \A i, j \in DOMAIN q : i # j => q[i] # q[j]}}

s_x_vtp == <<"d", ".", "1", "/", "x", ".", "v", "t", "p">>

ClassifyKinds ==
    {[format |-> "zone", name |-> "organ", input |-> <<s_x_vtp>>,
      groups |-> <<"vessels">>],
     [format |-> "surface", name |-> "organ", input |-> <<s_x_vtp>>,
      groups |-> <<"bronchi">>],
     [format |-> "surface", name |-> "tumour", input |-> <<s_x_vtp>>,
      groups |-> <<"veins", "vessels">>],
     [format |-> "surface", name |-> "tumour", input |-> <<s_x_vtp>>,
      groups |-> <<"bronchi">>],
     [format |-> "surface", name |-> "tumour", input |-> <<s_x_vtp>>,
      groups |-> <<"veins">>]}

ClassifyInputs ==
    {[xml |-> [definition |-> s_sif, needles |-> <<>>, regions |-> rb],
      parameters |-> BaseParameters, algorithms |-> <<>>] :
        rb \in RegionBlocks(ClassifyKinds)}

\* regions with an input file, with an empty input attribute (<<<<>>>>) and
\* with no input attribute (<<>>)
RegionFileInputs ==
    {[xml |-> [definition |-> s_sif, needles |-> <<>>, regions |-> rb],
      parameters |-> BaseParameters, algorithms |-> <<>>] :
        rb \in RegionBlocks(RegionKinds({"surface", "zone", "both"}, {"organ"},
                                        {<<>>, <<<<>>>>, <<s_x_vtp>>}, {<<>>}))}

MaxPieces == 2

Fragments == {<<"f">>, <<"o", "p", "e", "n">>, <<"(", "x", ")">>}

RECURSIVE Concat(_, _)
Concat(pieces, k) == IF k = 0 THEN <<>> ELSE Concat(pieces, k - 1) \o pieces[k]

\* the texts made of up to MaxPieces fragments
Texts == {Concat(ps, Len(ps)) : ps \in UNION {[1..n -> Fragments] : n \in 0..MaxPieces}}

Contents == {None} \cup {Str(t) : t \in Texts}

CleanAlgorithm ==
    [key |-> <<"q">>, val |-> [arguments |-> <<"T">>, content |-> Str(<<"T">>)]]

Algorithm(result, content) ==
    [key |-> result, val |-> [arguments |-> <<"b", "a">>, content |-> content]]

AlgorithmDicts ==
    {<<>>}
    \cup {<<Algorithm(r, c)>> : r \in {<<"r">>, <<"u", "n", "l", "o", "a", "d">>},
                                c \in Contents}
    \cup {<<CleanAlgorithm, Algorithm(<<"r">>, c)>> : c \in Contents}

AlgorithmInputs ==
    {[xml |-> [definition |-> s_sif, needles |-> <<>>, regions |-> <<OrganRegion>>],
      parameters |-> BaseParameters, algorithms |-> a] : a \in AlgorithmDicts}

FieldValues == {None, Num(0), Rat(3, 2)}

LengthscaleInputs ==
    {[xml |-> [definition |-> s_sif, needles |-> <<>>, regions |-> <<OrganRegion>>],
      parameters |-> BaseParameters
                     \o Opt("RESOLUTION_HIGH", h)
                     \o Opt("RESOLUTION_FIELD_NEAR", n)
                     \o Opt("RESOLUTION_FIELD_FAR", f)
                     \o Opt("RESOLUTION_FIELD_ZONE", z),
      algorithms |-> <<>>] :
        h \in {None, Bool(TRUE), Bool(FALSE)},
        n \in FieldValues, f \in FieldValues, z \in FieldValues}

----------------------------------------------------------------------------
(* Specifications *)

Load(Inputs) ==
    \E inp \in Inputs : load_definition(inp.xml, inp.parameters, inp.algorithms)

Lookup ==
    \E k \in NeedleKeys, key \in {"NEEDLE_TIP_LOCATION", "NEEDLE_RADIUS"} :
        call_get_needle_parameter(k, key)

\* loads and needle lookups
NextLookup == Load(LookupInputs) \/ Lookup

SpecLookup == Init /\ [][NextLookup]_vars

\* loads and compilations over needles and centre policies
NextCentre == Load(CentreInputs) \/ to_xml

SpecCentre == Init /\ [][NextCentre]_vars

\* loads and compilations over needles placed around a centre
NextPlacement == Load(PlacementInputs) \/ to_xml

SpecPlacement == Init /\ [][NextPlacement]_vars

\* loads and compilations over point sources and required parameters
NextFatal == Load(FatalInputs) \/ to_xml

SpecFatal == Init /\ [][NextFatal]_vars

\* loads and compilations over region classifications
NextClassify == Load(ClassifyInputs) \/ to_xml

SpecClassify == Init /\ [][NextClassify]_vars

\* loads and compilations over region formats and input files
NextRegionFiles == Load(RegionFileInputs) \/ to_xml

SpecRegionFiles == Init /\ [][NextRegionFiles]_vars

\* loads and compilations over algorithm texts
NextAlgorithms == Load(AlgorithmInputs) \/ to_xml

SpecAlgorithms == Init /\ [][NextAlgorithms]_vars

\* loads and compilations over the resolution parameters
NextLengthscales == Load(LengthscaleInputs) \/ to_xml

SpecLengthscales == Init /\ [][NextLengthscales]_vars

----------------------------------------------------------------------------
(* Properties of the needle lookup *)

\* the needles of the most recent load, in input order
Declared(k) == _needles[k + 1].key

IsDeclared(key) == key.t = "str" /\ DictHas(_needles, key.s)

IsOrdinal(key) == key.t = "num" /\ key.den = 1 /\ key.num \in 0..(Len(_needles) - 1)

LookedUp == ret.op = "get_needle_parameter"

\* C3: a lookup with a key that is neither a declared index nor an ordinal
\* position 0..n-1 of the most recent load fails with a lookup error
C3_UnknownKeyFails ==
    (LookedUp /\ ~IsDeclared(ret.value[2]) /\ ~IsOrdinal(ret.value[2]))
        => ret.status = "KeyError"

\* C4: every ordinal position k < n resolves to the needle declared k-th in the
\* most recent load, and a declared index resolves to itself
C4_OrdinalMatchesDeclared ==
    /\ \A k \in 0..(Len(_needles) - 1) :
          \A key \in {"NEEDLE_TIP_LOCATION", "NEEDLE_ENTRY_LOCATION"} :
             /\ get_needle_parameter(Num(k), key).status = "ok"
             /\ get_needle_parameter(Num(k), key)
                  = get_needle_parameter(Str(Declared(k)), key)
             /\ get_needle_parameter(Num(k), key).value
                  = get_parameter_in(_needles[k + 1].val.parameters, key)
    /\ \A d \in DictKeys(_needles) : resolve_needle_index(Str(d)) = Str(d)
    /\ LookedUp /\ IsOrdinal(ret.value[2])
          => /\ ret.status = "ok"
             /\ ret.value[1] \in
                   {get_parameter_in(_needles[ret.value[2].num + 1].val.parameters, key) :
                       key \in {"NEEDLE_TIP_LOCATION", "NEEDLE_RADIUS"}}

\* C4 witness: an ordinal lookup answered after a reload that left an ordinal
\* of the earlier, longer load behind
C4_Witness ==
    /\ LookedUp /\ ret.status = "ok" /\ ret.value[2] = Num(0)
    /\ ret.value[1] = Vec(4, 0, 1)
    /\ Len(_needles) = 1
    /\ 1 \in DOMAIN _needle_order /\ _needle_order[1] = <<"a">>

----------------------------------------------------------------------------
(* Properties of the geometry *)

Compiled == ret.op = "to_xml" /\ ret.status = "ok"

Policy == get_parameter("CENTRE_LOCATION")

Tip(k) == get_parameter_in(_needles[k].val.parameters, "NEEDLE_TIP_LOCATION").l

Entry(k) == get_parameter_in(_needles[k].val.parameters, "NEEDLE_ENTRY_LOCATION").l

RECURSIVE TipSum(_, _)
\* the sum over the first k loaded needles of axis a of their tips (integers)
TipSum(k, a) == IF k = 0 THEN 0 ELSE TipSum(k - 1, a) + Tip(k)[a].num

\* the needles to_xml places from the needle library
IsLibraryPlaced(k) ==
    /\ _needles[k].val.class \in {"boundary", "solid-boundary"}
    /\ SplitColon(_needles[k].val.file)[1] \notin {s_surface, s_zone}

Position(ix) == CHOOSE k \in 1..Len(_needles) : _needles[k].key = ix

Placements == ret.value[1].needlelibrary.needles

PlacementsCoverLibraryNeedles ==
    {Placements[i].index : i \in 1..Len(Placements)}
        = {_needles[k].key : k \in {j \in 1..Len(_needles) : IsLibraryPlaced(j)}}

AxesAreEntryMinusTip ==
    /\ \A i \in 1..Len(Placements) :
          LET k == Position(Placements[i].index)
          IN  /\ Len(Placements[i].axis) = 3
              /\ \A a \in 1..3 :
                    NumEq(Placements[i].axis[a], Num(Entry(k)[a].num - Tip(k)[a].num))
    /\ Len(_needles) > 0 =>
          /\ Len(ret.value[1].needleaxis) = 1
          /\ \A a \in 1..3 :
                NumEq(ret.value[1].needleaxis[1][a], Num(Entry(1)[a].num - Tip(1)[a].num))

C2_NoCentreFails ==
    (ret.op = "to_xml" /\ _parameters # <<>> /\ Len(_needles) = 0
       /\ (IsNone(Policy) \/ IsStr(Policy, s_first_needle)
             \/ IsStr(Policy, s_centroid_of_tips)))
        => ret.status # "ok" /\ ret.value = <<>>

\* C6: with needles loaded, the centroid-of-tips centre is per axis the sum
\* of all tips over the number of needles (the tip itself for one needle),
\* and the first-needle or default centre is the tip of the first needle
C6_CentreFromTips ==
    (Compiled /\ Len(_needles) > 0) =>
        LET centre == ret.value[1].centre
            n == Len(_needles)
        IN  /\ IsStr(Policy, s_centroid_of_tips) =>
                 /\ Len(centre) = 3
                 /\ \A a \in 1..3 :
                       /\ centre[a].t = "num"
                       /\ centre[a].num * n = TipSum(n, a) * centre[a].den
                       /\ n = 1 => NumEq(centre[a], Tip(1)[a])
            /\ (IsNone(Policy) \/ IsStr(Policy, s_first_needle)) =>
                 centre = Tip(1)

\* C6 witness: a centroid of two tips that is no integer, after a reload
C6_Witness ==
    /\ Compiled /\ Len(_needles) = 2
    /\ IsStr(Policy, s_centroid_of_tips)
    /\ \E a \in 1..3 : ret.value[1].centre[a].den = 2
                        /\ ret.value[1].centre[a].num % 2 = 1

----------------------------------------------------------------------------
(* Properties of the algorithm check *)

\* fn occurs in text at some offset
Occurs(text, fn) ==
    \E off \in 0..(Len(text) - Len(fn)) : \A j \in 1..Len(fn) : text[off + j] = fn[j]

Denylisted(text) ==
    \E i \in 1..Len(_disallowed_functions) : Occurs(text, _disallowed_functions[i])

\* some loaded algorithm has a denylisted name in its content or result name
SomeAlgorithmDenylisted ==
    \E i \in 1..Len(_algorithms) :
        \/ Denylisted(_algorithms[i].key)
        \/ /\ _algorithms[i].val.content.t = "str"
           /\ Denylisted(_algorithms[i].val.content.s)

DocumentIsClean(doc) ==
    \A i \in 1..Len(doc.algorithms) :
        ~Denylisted(doc.algorithms[i].result) /\ ~Denylisted(doc.algorithms[i].content)

\* C5: to_xml fails and returns nothing when some algorithm's content or
\* result name contains a denylisted name, the check passes every algorithm
\* that contains none, and no document holds a denylisted algorithm
C5_DenylistRejects ==
    /\ (ret.op = "to_xml" /\ _parameters # <<>>) =>
          IF SomeAlgorithmDenylisted
            THEN ret.status = "NameError" /\ ret.value = <<>>
            ELSE /\ ret.status = "ok"
                 /\ Len(ret.value[1].algorithms) = Len(_algorithms)
    /\ \A i \in 1..Len(ret.value) : ret.op = "to_xml" => DocumentIsClean(ret.value[i])
    /\ \A i \in 1..Len(_xml) : DocumentIsClean(_xml[i])

\* C5 witness: a second algorithm whose content is put together to hold
\* "fopen" is rejected while an earlier document stays stored
C5_Witness ==
    /\ ret.op = "to_xml" /\ ret.status = "NameError"
    /\ Len(_algorithms) = 2
    /\ _algorithms[2].val.content = Str(<<"f", "o", "p", "e", "n">>)
    /\ _xml # <<>>

----------------------------------------------------------------------------
(* Properties of the fatal conditions *)

IsPointSources(k) == _needles[k].val.class = "point-sources"

\* a fatal condition of the claim holds of what is loaded
FatalCondition ==
    /\ _parameters # <<>>
    /\ \/ \E k \in 1..Len(_needles) :
             IsPointSources(k) /\ SplitColon(_needles[k].val.file)[1] # s_library
       \/ /\ \E k \in 1..Len(_needles) : IsPointSources(k)
          /\ IsNone(get_parameter("CONSTANT_NEEDLE_EXTENSIONS"))
       \/ IsNone(get_parameter("SETTING_LESION_FIELD"))

\* C7: a to_xml call under a fatal condition fails, returns no document and
\* leaves the stored document as it was
C7_FatalLeavesStoredDocument ==
    [][(ret'.op = "to_xml" /\ FatalCondition)
          => (ret'.status # "ok" /\ ret'.value = <<>> /\ _xml' = _xml)]_vars

\* C7 witness: an unsupported point-source reference has failed a call made
\* while a document of an earlier call was stored
C7_Witness ==
    /\ ret.op = "to_xml" /\ ret.status = "RuntimeError"
    /\ FatalCondition
    /\ _xml # <<>>

----------------------------------------------------------------------------
(* Properties of the regions *)

GivenRegions == ret.value[1]

\* the region has an input file: the attribute is there and is not empty
HasInput(region) == Len(region.input) = 1 /\ Len(region.input[1]) > 0

\* the name under which the region's file is required
LocalName(region) == s_input \o <<"/">> \o region.id \o SplitExt(region.input[1])

\* C8: a load registers the file of every surface or zone region that has an
\* input file under input/<id><extension>, registers nothing else, and puts
\* every region, also one without an input file, into the registry
C8_RegionFilesRegistered ==
    [][ret'.op = "load_definition" =>
          /\ ret'.status = "ok"
          /\ \A i \in 1..Len(ret'.value[1]) : DictHas(_regions', ret'.value[1][i].id)
          /\ \A i \in 1..Len(ret'.value[1]) :
                LET region == ret'.value[1][i]
                IN  (region.format \in {"surface", "zone"} /\ HasInput(region))
                      => /\ LocalName(region) \in DOMAIN _files_required'
                         /\ _files_required'[LocalName(region)] = region.input[1]
          /\ \A name \in DOMAIN _files_required' :
                \/ /\ name \in DOMAIN _files_required
                   /\ _files_required'[name] = _files_required[name]
                \/ \E i \in 1..Len(ret'.value[1]) :
                      LET region == ret'.value[1][i]
                      IN  /\ region.format \in {"surface", "zone"}
                          /\ HasInput(region)
                          /\ name = LocalName(region)]_vars

MesherEntries == ret.value[1].mesher.entries

\* the tag the claimed precedence gives a region, "" for none
ClaimedTag(region) ==
    CASE region.format = "zone" -> "zone"
      [] region.format # "zone" /\ region.meaning = "organ" -> "organ"
      [] region.format # "zone" /\ region.meaning # "organ"
         /\ ((\E g \in 1..Len(region.groups) : region.groups[g] = "vessels")
             \/ (\E h \in 1..Len(region.groups) : region.groups[h] = "bronchi"))
           -> "vessel"
      [] OTHER -> ""

\* C9: the mesher entries are, in region order, one entry for each region
\* that the precedence zone, organ, vessel classifies, and none for the others
C9_ClassificationPrecedence ==
    Compiled =>
        /\ \A i \in 1..Len(_regions) :
              LET mine == {e \in 1..Len(MesherEntries) :
                              MesherEntries[e].region = _regions[i].key}
              IN  IF ClaimedTag(_regions[i].val) = ""
                    THEN mine = {}
                    ELSE /\ Cardinality(mine) = 1
                         /\ \A e \in mine :
                               MesherEntries[e].tag = ClaimedTag(_regions[i].val)
        /\ \A e \in 1..Len(MesherEntries) : DictHas(_regions, MesherEntries[e].region)
        /\ \A e, f \in 1..Len(MesherEntries) :
              e < f => \E i, j \in 1..Len(_regions) :
                          /\ i < j
                          /\ _regions[i].key = MesherEntries[e].region
                          /\ _regions[j].key = MesherEntries[f].region

\* C9 witness: a zone region that is also an organ with vessels, after a
\* region with no entry, gives the single entry zone
C9_Witness ==
    /\ Compiled /\ Len(_regions) = 2
    /\ ClaimedTag(_regions[1].val) = ""
    /\ _regions[2].val.format = "zone" /\ _regions[2].val.meaning = "organ"
    /\ MesherEntries = <<[tag |-> "zone", region |-> _regions[2].key]>>

----------------------------------------------------------------------------
(* Properties of the length scales *)

Lengthscales == ret.value[1].mesher.lengthscales

PresetValue(k) ==
    IF Truthy(get_parameter("RESOLUTION_HIGH"))
      THEN <<Str(<<"1", ".", "0">>), Str(<<"2", ".", "0">>), Str(<<"1", ".", "0">>)>>[k]
      ELSE <<Str(<<"2", ".", "0">>), Str(<<"5", ".", "0">>), Str(<<"2", ".", "0">>)>>[k]

FieldParameter(k) ==
    get_parameter(<<"RESOLUTION_FIELD_NEAR", "RESOLUTION_FIELD_FAR",
                    "RESOLUTION_FIELD_ZONE">>[k])

FieldName(k) == <<"nearfield", "farfield", "zonefield">>[k]

\* C10 as claimed: each field is its explicitly supplied parameter, and the
\* preset of RESOLUTION_HIGH when none is supplied
C10_SuppliedFieldReplaces ==
    Compiled =>
        \A k \in 1..3 :
            /\ Lengthscales[k].k = FieldName(k)
            /\ Lengthscales[k].v =
                  IF IsNone(FieldParameter(k)) THEN PresetValue(k) ELSE FieldParameter(k)

\* C10 amended: each field is its supplied parameter when that value is
\* truthy (not zero, not empty), and the preset of RESOLUTION_HIGH otherwise
C10_TruthyFieldReplaces ==
    Compiled =>
        \A k \in 1..3 :
            /\ Lengthscales[k].k = FieldName(k)
            /\ Lengthscales[k].v =
                  IF FieldParameter(k).t = "num" /\ FieldParameter(k).num # 0
                    THEN FieldParameter(k) ELSE PresetValue(k)

\* C10 witness: the high-resolution preset with only the near field replaced,
\* the far field supplied as zero
C10_Witness ==
    /\ Compiled
    /\ IsTrue(get_parameter("RESOLUTION_HIGH"))
    /\ FieldParameter(2) = Num(0)
    /\ Lengthscales[1].v = Rat(3, 2)
    /\ Lengthscales[2].v = Str(<<"2", ".", "0">>)
    /\ Lengthscales[3].v = Str(<<"1", ".", "0">>)

====
